---- MODULE Spec2Model ----
(***************************************************************************)
(* Model of the Pando -> Rust transpiler (pando_transpiler/src).           *)
(*                                                                         *)
(* A Rust `str` is modelled as its UTF-8 byte sequence: a sequence of      *)
(* one-character strings, where a two-byte character is the pair           *)
(* <<Wide, Cont>>.  Byte offsets (find, len, slicing) are therefore        *)
(* sequence positions, and a slice that is out of range or does not fall   *)
(* on a character boundary is a panic, as in Rust.                         *)
(***************************************************************************)
EXTENDS Integers, Sequences, FiniteSets

VARIABLES lines, line_idx, variables, rust_lines, pc, err, output, last

vars == <<lines, line_idx, variables, rust_lines, pc, err, output, last>>

(***************************************************************************)
(* Bounds of the model.                                                    *)
(***************************************************************************)
MaxLines == 2

(***************************************************************************)
(* Strings.                                                                *)
(***************************************************************************)
Chars(s) == [k \in 1..Len(s) |-> SubSeq(s, k, k)]

Cont == "cont"
Wide == "U+00E9"

None == <<>>
Some(v) == <<v>>

NotFound == -1

Letters == {Chars("abcdefghijklmnopqrstuvwxyzABCDEFGHIJKLMNOPQRSTUVWXYZ")[k] : k \in 1..52}
Digits == {Chars("0123456789")[k] : k \in 1..10}

SetMin(S) == CHOOSE m \in S : \A n \in S : m <= n

is_whitespace(c) == c \in {" ", "\t"}

is_alphabetic(c) == c \in Letters \cup {Wide}

chars(s) == SelectSeq(s, LAMBDA b : b # Cont)

is_char_boundary(s, p) == p = 0 \/ p = Len(s) \/ (p > 0 /\ p < Len(s) /\ s[p + 1] # Cont)

slice_ok(s, a, b) == a <= b /\ b <= Len(s) /\ is_char_boundary(s, a) /\ is_char_boundary(s, b)

slice(s, a, b) == SubSeq(s, a + 1, b)

starts_with(s, p) == Len(p) <= Len(s) /\ SubSeq(s, 1, Len(p)) = p

ends_with(s, p) == Len(p) <= Len(s) /\ SubSeq(s, Len(s) - Len(p) + 1, Len(s)) = p

find(s, p) ==
    LET hits == {k \in 0..(Len(s) - Len(p)) : SubSeq(s, k + 1, k + Len(p)) = p}
    IN  IF hits = {} THEN NotFound ELSE SetMin(hits)

contains(s, p) == find(s, p) # NotFound

RECURSIVE trim_start(_)
trim_start(s) == IF s # <<>> /\ is_whitespace(Head(s)) THEN trim_start(Tail(s)) ELSE s

RECURSIVE trim_end(_)
trim_end(s) == IF s # <<>> /\ is_whitespace(s[Len(s)]) THEN trim_end(SubSeq(s, 1, Len(s) - 1)) ELSE s

trim(s) == trim_end(trim_start(s))

RECURSIVE repeat(_, _)
repeat(c, n) == IF n <= 0 THEN <<>> ELSE <<c>> \o repeat(c, n - 1)

RECURSIVE leading_whitespace(_)
leading_whitespace(s) ==
    IF s # <<>> /\ is_whitespace(Head(s)) THEN 1 + leading_whitespace(Tail(s)) ELSE 0

to_ascii_lowercase(c) ==
    LET up == Chars("ABCDEFGHIJKLMNOPQRSTUVWXYZ")
        lo == Chars("abcdefghijklmnopqrstuvwxyz")
        at == {k \in 1..26 : up[k] = c}
    IN  IF at = {} THEN c ELSE lo[CHOOSE k \in at : TRUE]

(***************************************************************************)
(* Numeric parsing: str::parse::<i64>() and str::parse::<f64>().           *)
(***************************************************************************)
AllDigits(s) == \A k \in 1..Len(s) : s[k] \in Digits

DigitVal(c) == CHOOSE d \in 0..9 : Chars("0123456789")[d + 1] = c

RECURSIVE strip_zeros(_)
strip_zeros(s) == IF Len(s) > 1 /\ Head(s) = "0" THEN strip_zeros(Tail(s)) ELSE s

RECURSIVE digits_leq(_, _)
digits_leq(a, b) ==
    IF a = <<>> THEN TRUE
    ELSE IF DigitVal(Head(a)) < DigitVal(Head(b)) THEN TRUE
    ELSE IF DigitVal(Head(a)) > DigitVal(Head(b)) THEN FALSE
    ELSE digits_leq(Tail(a), Tail(b))

I64_MAX == Chars("9223372036854775807")
I64_MIN_ABS == Chars("9223372036854775808")

parse_i64_ok(s) ==
    LET signed == s # <<>> /\ Head(s) \in {"+", "-"}
        neg == s # <<>> /\ Head(s) = "-"
        body == IF signed THEN Tail(s) ELSE s
        mag == strip_zeros(body)
    IN  /\ body # <<>>
        /\ AllDigits(body)
        /\ \/ Len(mag) < Len(I64_MAX)
           \/ Len(mag) = Len(I64_MAX) /\ digits_leq(mag, IF neg THEN I64_MIN_ABS ELSE I64_MAX)

RECURSIVE digit_run(_)
digit_run(s) == IF s # <<>> /\ Head(s) \in Digits THEN 1 + digit_run(Tail(s)) ELSE 0

parse_f64_ok(s) ==
    LET signed == s # <<>> /\ Head(s) \in {"+", "-"}
        body == IF signed THEN Tail(s) ELSE s
        low == [k \in 1..Len(body) |-> to_ascii_lowercase(body[k])]
        n1 == digit_run(body)
        r1 == SubSeq(body, n1 + 1, Len(body))
        dot == r1 # <<>> /\ Head(r1) = "."
        r2 == IF dot THEN Tail(r1) ELSE r1
        n2 == IF dot THEN digit_run(r2) ELSE 0
        r3 == SubSeq(r2, n2 + 1, Len(r2))
        exp == r3 # <<>> /\ Head(r3) \in {"e", "E"}
        r4 == IF exp THEN Tail(r3) ELSE r3
        r5 == IF exp /\ r4 # <<>> /\ Head(r4) \in {"+", "-"} THEN Tail(r4) ELSE r4
    IN  \/ low \in {Chars("inf"), Chars("infinity"), Chars("nan")}
        \/ /\ n1 + n2 > 0
           /\ IF exp THEN r5 # <<>> /\ AllDigits(r5) ELSE r3 = <<>>

(***************************************************************************)
(* types.rs                                                                *)
(***************************************************************************)
TypeMapping ==
    << <<"int", "i32">>, <<"int8", "i8">>, <<"int16", "i16">>, <<"int32", "i32">>,
       <<"int64", "i64">>, <<"int128", "i128">>, <<"int_size", "isize">>,
       <<"uint8", "u8">>, <<"uint16", "u16">>, <<"uint32", "u32">>, <<"uint64", "u64">>,
       <<"uint128", "u128">>, <<"uint_size", "usize">>, <<"float", "f32">>,
       <<"double", "f64">>, <<"bool", "bool">>, <<"char", "char">>, <<"str", "&str">>,
       <<"None", "()">>, <<"bytes", "&[u8]">>, <<"bytearray", "Vec<u8>">>,
       <<"string", "String">> >>

get_type_mapping(type_name) ==
    LET at == {k \in 1..Len(TypeMapping) : Chars(TypeMapping[k][1]) = type_name}
    IN  IF at = {} THEN None ELSE Some(Chars(TypeMapping[CHOOSE k \in at : TRUE][2]))

is_integer_type(type_name) ==
    type_name \in {Chars(t) : t \in {"int", "int8", "int16", "int32", "int64", "int128", "int_size",
                                     "uint8", "uint16", "uint32", "uint64", "uint128", "uint_size"}}

is_numeric_type(type_name) ==
    type_name \in {Chars(t) : t \in {"int", "int8", "int16", "int32", "int64", "int128", "int_size",
                                     "uint8", "uint16", "uint32", "uint64", "uint128", "uint_size",
                                     "float", "double"}}

is_bitwise_type(type_name) == is_integer_type(type_name)

get_default_value(type_name) ==
    IF is_integer_type(type_name) THEN Chars("0")
    ELSE IF type_name = Chars("float") THEN Chars("0.0f32")
    ELSE IF type_name = Chars("double") THEN Chars("0.0f64")
    ELSE IF type_name = Chars("bool") THEN Chars("false")
    ELSE IF type_name = Chars("char") THEN Chars("'\\0'")
    ELSE IF type_name = Chars("str") THEN Chars("\"\"")
    ELSE IF type_name = Chars("None") THEN Chars("()")
    ELSE IF type_name = Chars("bytes") THEN Chars("b\"\"")
    ELSE IF type_name = Chars("bytearray") THEN Chars("Vec::new()")
    ELSE IF type_name = Chars("string") THEN Chars("String::new()")
    ELSE Chars("0")

RECURSIVE escape_string_for_rust(_)
escape_string_for_rust(s) ==
    IF s = <<>> THEN <<>>
    ELSE LET c == Head(s)
             e == IF c = "\n" THEN Chars("\\n")
                  ELSE IF c = "\r" THEN Chars("\\r")
                  ELSE IF c = "\t" THEN Chars("\\t")
                  ELSE IF c = "\"" THEN Chars("\\\"")
                  ELSE IF c = "\\" THEN Chars("\\\\")
                  ELSE <<c>>
         IN  e \o escape_string_for_rust(Tail(s))

as_str(op) ==
    CASE op = "Add" -> Chars("+")
      [] op = "Subtract" -> Chars("-")
      [] op = "Multiply" -> Chars("*")
      [] op = "Divide" -> Chars("/")
      [] op = "FloorDivide" -> Chars("//")
      [] op = "Modulo" -> Chars("%")
      [] op = "BitwiseOr" -> Chars("|")
      [] op = "BitwiseAnd" -> Chars("&")
      [] op = "BitwiseXor" -> Chars("^")

(***************************************************************************)
(* error.rs and the three outcomes of a call: Ok(v), Err(e), or a panic.   *)
(***************************************************************************)
TranspilerError(message, line, column) == [message |-> message, line |-> line, column |-> column]

Ok(v) == [res |-> "Ok", val |-> v]
Err(message, line, column) == [res |-> "Err", val |-> TranspilerError(message, line, column)]
Panic == [res |-> "Panic", val |-> <<>>]

IsOk(r) == r.res = "Ok"
IsErr(r) == r.res = "Err"
IsPanic(r) == r.res = "Panic"

Literal(value, expr_type) == [tag |-> "Literal", value |-> value, expr_type |-> expr_type]
Variable(name, expr_type) == [tag |-> "Variable", name |-> name, expr_type |-> expr_type]
BinaryOp(left, op, right, expr_type) ==
    [tag |-> "BinaryOp", left |-> left, op |-> op, right |-> right, expr_type |-> expr_type]
UnaryOp(op, expr, expr_type) == [tag |-> "UnaryOp", op |-> op, expr |-> expr, expr_type |-> expr_type]
CompoundAssign(name, op, value, expr_type) ==
    [tag |-> "CompoundAssign", name |-> name, op |-> op, value |-> value, expr_type |-> expr_type]

get_type(e) == e.expr_type

(***************************************************************************)
(* expressions.rs                                                          *)
(* Values a function binds with `let` and uses more than once are passed   *)
(* on as parameters of a helper operator that models the rest of the       *)
(* function's body.                                                        *)
(***************************************************************************)
\* The same operators listed in the conventional order, multiplicative first
\* and bitwise last: the order expressions.rs does not use.
PRECEDENCE_conventional ==
    << [op |-> "Multiply", str |-> Chars("*")],
       [op |-> "Divide", str |-> Chars("/")],
       [op |-> "FloorDivide", str |-> Chars("//")],
       [op |-> "Modulo", str |-> Chars("%")],
       [op |-> "Add", str |-> Chars("+")],
       [op |-> "Subtract", str |-> Chars("-")],
       [op |-> "BitwiseAnd", str |-> Chars("&")],
       [op |-> "BitwiseXor", str |-> Chars("^")],
       [op |-> "BitwiseOr", str |-> Chars("|")] >>

PRECEDENCE ==
    << [op |-> "BitwiseOr", str |-> Chars("|")],
       [op |-> "BitwiseXor", str |-> Chars("^")],
       [op |-> "BitwiseAnd", str |-> Chars("&")],
       [op |-> "Add", str |-> Chars("+")],
       [op |-> "Subtract", str |-> Chars("-")],
       [op |-> "Multiply", str |-> Chars("*")],
       [op |-> "Divide", str |-> Chars("/")],
       [op |-> "FloorDivide", str |-> Chars("//")],
       [op |-> "Modulo", str |-> Chars("%")] >>

\* best_prec starts at usize::MAX: larger than every index of PRECEDENCE.
NoPrec == Len(PRECEDENCE)

compound_ops ==
    << <<"+=", "Add">>, <<"-=", "Subtract">>, <<"*=", "Multiply">>, <<"/=", "Divide">>,
       <<"//=", "FloorDivide">>, <<"%=", "Modulo">>, <<"|=", "BitwiseOr">>,
       <<"&=", "BitwiseAnd">>, <<"^=", "BitwiseXor">> >>

\* A check that would let every operator through for every type: the check
\* expressions.rs does not make.
is_operator_valid_for_any_type(op, type_name) == TRUE

is_operator_valid_for_type(op, type_name) ==
    IF op \in {"Add", "Subtract", "Multiply", "Divide"} THEN is_numeric_type(type_name)
    ELSE IF op \in {"FloorDivide", "Modulo"} THEN is_integer_type(type_name)
    ELSE is_bitwise_type(type_name)

\* The slice &expr[pos..pos + op_str.len()] panics off a character boundary.
check_operator_panics(expr, pos, op_str) ==
    pos + Len(op_str) <= Len(expr) /\ ~slice_ok(expr, pos, pos + Len(op_str))

check_operator_at_position(expr, pos, op_str) ==
    IF pos + Len(op_str) > Len(expr) THEN FALSE
    ELSE slice(expr, pos, pos + Len(op_str)) = op_str

\* One iteration of the loop over compound_ops, with the operator found at pos.
compound_split(expr, op_str, op, pos) ==
    IF pos # NotFound /\ trim(slice(expr, 0, pos)) # <<>>
          /\ trim(slice(expr, pos + Len(op_str), Len(expr))) # <<>>
    THEN Some(<<trim(slice(expr, 0, pos)), op, trim(slice(expr, pos + Len(op_str), Len(expr)))>>)
    ELSE None

RECURSIVE compound_scan(_, _)
compound_scan(expr, k) ==
    IF k > Len(compound_ops) THEN None
    ELSE IF compound_split(expr, Chars(compound_ops[k][1]), compound_ops[k][2],
                           find(expr, Chars(compound_ops[k][1]))) # None
    THEN compound_split(expr, Chars(compound_ops[k][1]), compound_ops[k][2],
                        find(expr, Chars(compound_ops[k][1])))
    ELSE compound_scan(expr, k + 1)

parse_compound_assignment(expr) == compound_scan(expr, 1)

literal_of(trimmed, line_num, column) ==
    IF parse_i64_ok(trimmed) THEN Ok(Literal(trimmed, Chars("int")))
    ELSE IF parse_f64_ok(trimmed) THEN Ok(Literal(trimmed, Chars("float")))
    ELSE IF trimmed = Chars("True") THEN Ok(Literal(Chars("true"), Chars("bool")))
    ELSE IF trimmed = Chars("False") THEN Ok(Literal(Chars("false"), Chars("bool")))
    ELSE IF trimmed = Chars("None") THEN Ok(Literal(Chars("()"), Chars("None")))
    ELSE IF starts_with(trimmed, Chars("b\"")) /\ ends_with(trimmed, Chars("\""))
    THEN IF ~slice_ok(trimmed, 2, Len(trimmed) - 1) THEN Panic
         ELSE Ok(Literal(Chars("b\"") \o escape_string_for_rust(slice(trimmed, 2, Len(trimmed) - 1))
                           \o Chars("\""), Chars("bytes")))
    ELSE IF starts_with(trimmed, Chars("\"")) /\ ends_with(trimmed, Chars("\""))
    THEN IF ~slice_ok(trimmed, 1, Len(trimmed) - 1) THEN Panic
         ELSE Ok(Literal(Chars("\"") \o escape_string_for_rust(slice(trimmed, 1, Len(trimmed) - 1))
                           \o Chars("\""), Chars("str")))
    ELSE IF starts_with(trimmed, Chars("'")) /\ ends_with(trimmed, Chars("'")) /\ Len(trimmed) >= 3
    THEN Ok(Literal(Chars("'") \o escape_string_for_rust(slice(trimmed, 1, Len(trimmed) - 1))
                      \o Chars("'"), Chars("char")))
    ELSE IF trimmed = Chars("Vec::new()") \/ trimmed = Chars("vec![]")
    THEN Ok(Literal(Chars("Vec::new()"), Chars("bytearray")))
    ELSE Err(<<"InvalidLiteral", trimmed>>, line_num, column)

parse_literal(expr, line_num, column) == literal_of(trim(expr), line_num, column)

parse_atomic_expression(expr, vtab, line_num, column) ==
    IF expr \in DOMAIN vtab THEN Ok(Variable(expr, vtab[expr]))
    ELSE parse_literal(expr, line_num, column)

\* The inner loop over PRECEDENCE at one position: the index of the operator
\* recorded there, NoPrec when none is recorded, -1 when the slice panics.
RECURSIVE try_operators(_, _, _, _)
try_operators(expr, i, prec, best_prec) ==
    IF prec >= Len(PRECEDENCE) THEN NoPrec
    ELSE IF check_operator_panics(expr, i, PRECEDENCE[prec + 1].str) THEN -1
    ELSE IF check_operator_at_position(expr, i, PRECEDENCE[prec + 1].str) /\ prec < best_prec
    THEN prec
    ELSE try_operators(expr, i, prec + 1, best_prec)

\* A scan that would not track parentheses: the depth the code does not keep at
\* zero.
paren_depth_flat(ch, paren_count) == paren_count

paren_depth(ch, paren_count) ==
    IF ch = "(" THEN paren_count + 1
    ELSE IF ch = ")" THEN paren_count - 1
    ELSE paren_count

\* The scan for the operator to split at: pos and prec of the operator recorded
\* (prec = NoPrec when there is none); panicked when a slice of the scan panics.
RECURSIVE find_split(_, _, _, _, _)
RECURSIVE scan_position(_, _, _, _, _, _)

scan_position(expr, i, depth, hit, best_pos, best_prec) ==
    IF hit = -1 THEN [pos |-> best_pos, prec |-> best_prec, panicked |-> TRUE]
    ELSE IF hit < NoPrec THEN find_split(expr, i + 1, depth, i, hit)
    ELSE find_split(expr, i + 1, depth, best_pos, best_prec)

find_split(expr, i, paren_count, best_pos, best_prec) ==
    IF i >= Len(chars(expr)) THEN [pos |-> best_pos, prec |-> best_prec, panicked |-> FALSE]
    ELSE IF paren_depth(chars(expr)[i + 1], paren_count) # 0
    THEN find_split(expr, i + 1, paren_depth(chars(expr)[i + 1], paren_count), best_pos, best_prec)
    ELSE scan_position(expr, i, 0, try_operators(expr, i, 0, best_prec), best_pos, best_prec)

RECURSIVE parse_binary_expression(_, _, _, _)
RECURSIVE parse_unary_expression(_, _, _, _)

\* The rest of a unary branch once the operand is parsed.
unary_of(op, inner_res, line_num, column) ==
    IF ~IsOk(inner_res) THEN inner_res
    ELSE IF op = "Negate" /\ ~is_numeric_type(get_type(inner_res.val))
    THEN Err(<<"UnaryMinusNotValid", get_type(inner_res.val)>>, line_num, column)
    ELSE IF op = "BitwiseNot" /\ ~is_bitwise_type(get_type(inner_res.val))
    THEN Err(<<"BitwiseNotNotValid", get_type(inner_res.val)>>, line_num, column)
    ELSE Ok(UnaryOp(op, inner_res.val, get_type(inner_res.val)))

unary_trimmed(trimmed, vtab, line_num, column) ==
    IF starts_with(trimmed, Chars("-"))
    THEN unary_of("Negate",
                  parse_unary_expression(trim(slice(trimmed, 1, Len(trimmed))), vtab, line_num,
                                         column + 1),
                  line_num, column)
    ELSE IF starts_with(trimmed, Chars("~"))
    THEN unary_of("BitwiseNot",
                  parse_unary_expression(trim(slice(trimmed, 1, Len(trimmed))), vtab, line_num,
                                         column + 1),
                  line_num, column)
    ELSE IF starts_with(trimmed, Chars("(")) /\ ends_with(trimmed, Chars(")"))
    THEN IF ~slice_ok(trimmed, 1, Len(trimmed) - 1) THEN Panic
         ELSE parse_binary_expression(trim(slice(trimmed, 1, Len(trimmed) - 1)),
                                      vtab, line_num, column + 1)
    ELSE parse_atomic_expression(trimmed, vtab, line_num, column)

parse_unary_expression(expr, vtab, line_num, column) ==
    unary_trimmed(trim(expr), vtab, line_num, column)

\* The rest of the binary branch once both sides are parsed.
binary_of(left_res, op, right_res, line_num, err_column) ==
    IF ~IsOk(left_res) THEN left_res
    ELSE IF ~IsOk(right_res) THEN right_res
    ELSE IF get_type(left_res.val) # get_type(right_res.val)
    THEN Err(<<"TypeMismatchBinary", get_type(left_res.val), get_type(right_res.val)>>,
             line_num, err_column)
    ELSE IF ~is_operator_valid_for_type(op, get_type(left_res.val))
    THEN Err(<<"OperatorNotValid", Chars(op), get_type(left_res.val)>>, line_num, err_column)
    ELSE Ok(BinaryOp(left_res.val, op, right_res.val, get_type(left_res.val)))

\* The body of parse_binary_expression after the scan.
binary_split(expr, best, op, vtab, line_num, column) ==
    IF best.panicked THEN Panic
    ELSE IF best.prec < NoPrec
    THEN IF ~slice_ok(expr, 0, best.pos) \/ ~slice_ok(expr, best.pos + Len(as_str(op)), Len(expr))
         THEN Panic
         ELSE binary_of(parse_binary_expression(slice(expr, 0, best.pos), vtab, line_num, column),
                        op,
                        parse_binary_expression(slice(expr, best.pos + Len(as_str(op)), Len(expr)),
                                                vtab, line_num, column),
                        line_num, column + best.pos)
    ELSE parse_unary_expression(expr, vtab, line_num, column)

best_op(best) == IF best.prec < NoPrec THEN PRECEDENCE[best.prec + 1].op ELSE "Add"

binary_scanned(expr, best, vtab, line_num, column) ==
    binary_split(expr, best, best_op(best), vtab, line_num, column)

parse_binary_expression(expr, vtab, line_num, column) ==
    binary_scanned(expr, find_split(expr, 0, 0, -1, NoPrec), vtab, line_num, column)

RECURSIVE parse_expression(_, _, _, _)

\* The compound branch once the value is parsed.
compound_of(name, op, var_type, value_res, line_num, column) ==
    IF ~IsOk(value_res) THEN value_res
    ELSE IF var_type # get_type(value_res.val)
    THEN Err(<<"TypeMismatchCompound", var_type, get_type(value_res.val)>>, line_num, column)
    ELSE Ok(CompoundAssign(name, op, value_res.val, var_type))

expression_trimmed(trimmed, compound, vtab, line_num, column) ==
    IF compound # None
    THEN IF compound[1][1] \notin DOMAIN vtab
         THEN Err(<<"UndeclaredVariable", compound[1][1]>>, line_num, column)
         ELSE compound_of(compound[1][1], compound[1][2], vtab[compound[1][1]],
                          parse_expression(compound[1][3], vtab, line_num, column),
                          line_num, column)
    ELSE parse_binary_expression(trimmed, vtab, line_num, column)

expression_of(trimmed, vtab, line_num, column) ==
    expression_trimmed(trimmed, parse_compound_assignment(trimmed), vtab, line_num, column)

parse_expression(expr, vtab, line_num, column) == expression_of(trim(expr), vtab, line_num, column)

(***************************************************************************)
(* generator.rs: generate_expression                                       *)
(***************************************************************************)
rust_operator(op) == IF op = "FloorDivide" THEN Chars("/") ELSE as_str(op)

RECURSIVE generate_expression(_)
generate_expression(expr) ==
    CASE expr.tag = "Literal" ->
            IF expr.expr_type = Chars("bytearray") /\ starts_with(expr.value, Chars("b\""))
            THEN expr.value \o Chars(".to_vec()")
            ELSE expr.value
      [] expr.tag = "Variable" -> expr.name
      [] expr.tag = "BinaryOp" ->
            Chars("(") \o generate_expression(expr.left) \o Chars(" ") \o rust_operator(expr.op)
                \o Chars(" ") \o generate_expression(expr.right) \o Chars(")")
      [] expr.tag = "UnaryOp" ->
            Chars("(") \o (IF expr.op = "Negate" THEN Chars("-") ELSE Chars("!"))
                \o generate_expression(expr.expr) \o Chars(")")
      [] expr.tag = "CompoundAssign" ->
            expr.name \o Chars(" ") \o rust_operator(expr.op) \o Chars(" ")
                \o generate_expression(expr.value)

(***************************************************************************)
(* parser.rs                                                               *)
(***************************************************************************)
PrintStmt(content, comment, indent) ==
    [kind |-> "Print", content |-> content, comment |-> comment, indent |-> indent]
VariableDecl(name, type_name, value, comment, indent) ==
    [kind |-> "VariableDecl", name |-> name, type_name |-> type_name, value |-> value,
     comment |-> comment, indent |-> indent]
VariableAssign(name, value, comment, indent) ==
    [kind |-> "VariableAssign", name |-> name, value |-> value, comment |-> comment, indent |-> indent]
Comment(content, indent) == [kind |-> "Comment", content |-> content, indent |-> indent]
Empty == [kind |-> "Empty"]

RECURSIVE drop_cont(_)
drop_cont(s) == IF s # <<>> /\ Head(s) = Cont THEN drop_cont(Tail(s)) ELSE s

\* line.chars().skip(n)
RECURSIVE skip(_, _)
skip(s, n) == IF n <= 0 \/ s = <<>> THEN s ELSE skip(drop_cont(Tail(s)), n - 1)

\* The character loop of split_code_and_comment: the code part and whether
\* a comment marker was met.
RECURSIVE split_scan(_, _, _, _)
split_scan(rest, in_string, escaped, code_part) ==
    IF rest = <<>> THEN [code |-> code_part, found |-> FALSE]
    ELSE IF Head(rest) = Cont
    THEN split_scan(Tail(rest), in_string, escaped, Append(code_part, Head(rest)))
    ELSE IF escaped THEN split_scan(Tail(rest), in_string, FALSE, Append(code_part, Head(rest)))
    ELSE IF Head(rest) = "\\"
    THEN split_scan(Tail(rest), in_string, TRUE, Append(code_part, Head(rest)))
    ELSE IF Head(rest) \in {"\"", "'"}
    THEN split_scan(Tail(rest), ~in_string, escaped, Append(code_part, Head(rest)))
    ELSE IF Head(rest) = "#" /\ ~in_string THEN [code |-> code_part, found |-> TRUE]
    ELSE split_scan(Tail(rest), in_string, escaped, Append(code_part, Head(rest)))

\* A comment that would leave out the character after the marker as well: the
\* skip the code does not make.
comment_part_after_separator(line, scan) ==
    IF scan.found THEN Some(skip(line, Len(chars(scan.code)) + 2)) ELSE None

comment_part(line, scan) ==
    IF scan.found THEN Some(skip(line, Len(chars(scan.code)) + 1)) ELSE None

split_scanned(line, scan) == [code |-> scan.code, comment |-> comment_part(line, scan)]

split_code_and_comment(line) == split_scanned(line, split_scan(line, FALSE, FALSE, <<>>))

\* c.trim_start() under the Option.
trim_comment(comment) == IF comment = None THEN None ELSE Some(trim_start(comment[1]))

\* An insertion that would keep the type of a name already in the table: the
\* behaviour HashMap::insert does not have.
insert_keep_first(vtab, name, type_name) ==
    [n \in DOMAIN vtab \cup {name} |->
        IF n \in DOMAIN vtab THEN vtab[n] ELSE type_name]

\* HashMap::insert
insert(vtab, name, type_name) ==
    [n \in DOMAIN vtab \cup {name} |-> IF n = name THEN type_name ELSE vtab[n]]

\* A check that would let any numeric value into any numeric variable: the
\* coercion parser.rs does not make.
types_match_numeric(var_type, value_type) ==
    var_type = value_type \/ (is_numeric_type(var_type) /\ is_numeric_type(value_type))

\* The assignment's check `var_type != value_type`, negated.
types_match(var_type, value_type) == var_type = value_type

\* The outcome of parse_line with the Symbol Table it leaves behind.
Returns(ret, vtab) == [ret |-> ret, variables |-> vtab]

\* Rule 1: the empty code segment.
parse_empty(comment_trimmed, indent) ==
    IF comment_trimmed = None THEN Ok(Empty)
    ELSE IF comment_trimmed[1] = <<>> THEN Ok(Comment(Chars("//"), indent))
    ELSE Ok(Comment(Chars("// ") \o comment_trimmed[1], indent))

\* Rule 2: print.
print_args(args, args_start, comment_trimmed, indent, line_num) ==
    IF ~starts_with(args, Chars("\"")) \/ ~ends_with(args, Chars("\""))
    THEN Err(<<"PrintArgNotString">>, line_num, args_start + 1)
    ELSE IF ~slice_ok(args, 1, Len(args) - 1) THEN Panic
    ELSE Ok(PrintStmt(escape_string_for_rust(slice(args, 1, Len(args) - 1)),
                      comment_trimmed, indent))

parse_print(trimmed_code, args_start, args_end, comment_trimmed, indent, line_num) ==
    IF args_start = NotFound \/ args_end = NotFound
    THEN Err(<<"PrintMissingParens">>, line_num, find(trimmed_code, Chars("p")))
    ELSE IF ~slice_ok(trimmed_code, args_start + 1, args_end) THEN Panic
    ELSE print_args(trim(slice(trimmed_code, args_start + 1, args_end)), args_start,
                    comment_trimmed, indent, line_num)

\* Rule 3: declaration.
declaration_result(var_name, type_part, value_res, declared, comment_trimmed, indent) ==
    IF ~IsOk(value_res) THEN Returns(value_res, declared)
    ELSE Returns(Ok(VariableDecl(var_name, type_part, Some(value_res.val), comment_trimmed, indent)),
                 declared)

declaration_typed(var_name, type_part, value_part, declared, column, comment_trimmed, indent, line_num) ==
    IF value_part = None
    THEN Returns(Ok(VariableDecl(var_name, type_part, None, comment_trimmed, indent)), declared)
    ELSE declaration_result(var_name, type_part,
                            parse_expression(trim(value_part[1]), declared, line_num, column),
                            declared, comment_trimmed, indent)

\* A declaration that would enter the name under any type text: the test against
\* the catalog left out.
declaration_parts_unchecked(var_name, part0, value_part, colon_pos, comment_trimmed, indent, line_num, vtab) ==
    declaration_typed(var_name, trim(part0), value_part, insert(vtab, var_name, trim(part0)),
                      colon_pos + Len(part0) + 2, comment_trimmed, indent, line_num)

declaration_parts(var_name, part0, value_part, colon_pos, comment_trimmed, indent, line_num, vtab) ==
    IF get_type_mapping(trim(part0)) = None
    THEN Returns(Err(<<"UnknownType", trim(part0)>>, line_num, colon_pos + 2), vtab)
    ELSE declaration_typed(var_name, trim(part0), value_part, insert(vtab, var_name, trim(part0)),
                           colon_pos + Len(part0) + 2, comment_trimmed, indent, line_num)

\* after_colon.splitn(2, '=')
splitn_first(after_colon, eq_pos) ==
    IF eq_pos = NotFound THEN after_colon ELSE slice(after_colon, 0, eq_pos)

splitn_second(after_colon, eq_pos) ==
    IF eq_pos = NotFound THEN None ELSE Some(slice(after_colon, eq_pos + 1, Len(after_colon)))

declaration_named(var_name, after_colon, colon_pos, comment_trimmed, indent, line_num, vtab) ==
    IF var_name = <<>> THEN Returns(Err(<<"MissingVariableName">>, line_num, 1), vtab)
    ELSE IF ~is_alphabetic(Head(var_name))
    THEN Returns(Err(<<"NameMustStartWithLetter">>, line_num, 1), vtab)
    ELSE declaration_parts(var_name, splitn_first(after_colon, find(after_colon, Chars("="))),
                           splitn_second(after_colon, find(after_colon, Chars("="))),
                           colon_pos, comment_trimmed, indent, line_num, vtab)

parse_declaration(trimmed_code, colon_pos, comment_trimmed, indent, line_num, vtab) ==
    declaration_named(trim(slice(trimmed_code, 0, colon_pos)),
                      trim(slice(trimmed_code, colon_pos + 1, Len(trimmed_code))),
                      colon_pos, comment_trimmed, indent, line_num, vtab)

\* Rule 5: the final error.
unrecognized(line_num) == Err(<<"UnrecognizedConstruct">>, line_num, 1)

\* Rule 4: assignment.
assignment_checked(left_side, var_type, value, equals_pos, comment_trimmed, indent, line_num) ==
    IF ~IsOk(value) THEN value
    ELSE IF ~types_match(var_type, get_type(value.val))
    THEN Err(<<"TypeMismatchAssign", get_type(value.val), var_type>>, line_num, equals_pos + 1)
    ELSE Ok(VariableAssign(left_side, value.val, comment_trimmed, indent))

assignment_sides(left_side, right_side, equals_pos, comment_trimmed, indent, line_num, vtab) ==
    IF left_side # <<>> /\ is_alphabetic(Head(left_side))
    THEN IF left_side \notin DOMAIN vtab
         THEN Err(<<"UndeclaredVariable", left_side>>, line_num, 1)
         ELSE assignment_checked(left_side, vtab[left_side],
                                 parse_expression(right_side, vtab, line_num, equals_pos + 1),
                                 equals_pos, comment_trimmed, indent, line_num)
    ELSE unrecognized(line_num)

parse_assignment(trimmed_code, equals_pos, comment_trimmed, indent, line_num, vtab) ==
    assignment_sides(trim(slice(trimmed_code, 0, equals_pos)),
                     trim(slice(trimmed_code, equals_pos + 1, Len(trimmed_code))),
                     equals_pos, comment_trimmed, indent, line_num, vtab)

\* A classification that would try the assignment rule before the declaration
\* rule: the order parser.rs does not use.
classify_assignment_first(trimmed_code, comment_trimmed, indent, line_num, vtab) ==
    IF trimmed_code = <<>> THEN Returns(parse_empty(comment_trimmed, indent), vtab)
    ELSE IF starts_with(trimmed_code, Chars("print"))
    THEN Returns(parse_print(trimmed_code, find(trimmed_code, Chars("(")),
                             find(trimmed_code, Chars(")")), comment_trimmed, indent, line_num),
                 vtab)
    ELSE IF contains(trimmed_code, Chars("="))
    THEN Returns(parse_assignment(trimmed_code, find(trimmed_code, Chars("=")), comment_trimmed,
                                  indent, line_num, vtab), vtab)
    ELSE IF contains(trimmed_code, Chars(":"))
    THEN parse_declaration(trimmed_code, find(trimmed_code, Chars(":")), comment_trimmed, indent,
                           line_num, vtab)
    ELSE Returns(unrecognized(line_num), vtab)

\* The classification of the trimmed code segment, in the order of the code.
classify(trimmed_code, comment_trimmed, indent, line_num, vtab) ==
    IF trimmed_code = <<>> THEN Returns(parse_empty(comment_trimmed, indent), vtab)
    ELSE IF starts_with(trimmed_code, Chars("print"))
    THEN Returns(parse_print(trimmed_code, find(trimmed_code, Chars("(")),
                             find(trimmed_code, Chars(")")), comment_trimmed, indent, line_num),
                 vtab)
    ELSE IF contains(trimmed_code, Chars(":"))
    THEN parse_declaration(trimmed_code, find(trimmed_code, Chars(":")), comment_trimmed, indent,
                           line_num, vtab)
    ELSE IF contains(trimmed_code, Chars("="))
    THEN Returns(parse_assignment(trimmed_code, find(trimmed_code, Chars("=")), comment_trimmed,
                                  indent, line_num, vtab), vtab)
    ELSE Returns(unrecognized(line_num), vtab)

parse_parts(parts, indent, line_num, vtab) ==
    classify(trim(parts.code), trim_comment(parts.comment), indent, line_num, vtab)

parse_line(line, line_num, vtab) ==
    parse_parts(split_code_and_comment(line), leading_whitespace(line), line_num, vtab)

(***************************************************************************)
(* generator.rs: generate_rust_line                                        *)
(***************************************************************************)
with_comment(line, comment) ==
    IF comment = None THEN line
    ELSE IF comment[1] = <<>> THEN line \o Chars(" //")
    ELSE line \o Chars(" // ") \o comment[1]

\* A generator that would drop the recorded indentation.
indent_str_none(indent) == <<>>

indent_str(indent) == repeat(" ", indent)

rust_type_of(type_name) ==
    IF get_type_mapping(type_name) = None THEN Chars("i32") ELSE get_type_mapping(type_name)[1]

to_vec_if_bytes(type_name, expr_str) ==
    IF type_name = Chars("bytearray") /\ starts_with(expr_str, Chars("b\""))
    THEN expr_str \o Chars(".to_vec()")
    ELSE expr_str

rust_value_of(type_name, value) ==
    IF value = None THEN get_default_value(type_name)
    ELSE to_vec_if_bytes(type_name, generate_expression(value[1]))

compound_rust_operator(op) == rust_operator(op) \o Chars("=")

generate_rust_line(parsed) ==
    CASE parsed.kind = "Print" ->
            with_comment(indent_str(parsed.indent) \o Chars("println!(\"") \o parsed.content
                            \o Chars("\");"), parsed.comment)
      [] parsed.kind = "VariableDecl" ->
            with_comment(indent_str(parsed.indent) \o Chars("let mut ") \o parsed.name
                            \o Chars(": ") \o rust_type_of(parsed.type_name) \o Chars(" = ")
                            \o rust_value_of(parsed.type_name, parsed.value) \o Chars(";"),
                         parsed.comment)
      [] parsed.kind = "VariableAssign" ->
            with_comment(IF parsed.value.tag = "CompoundAssign"
                         THEN indent_str(parsed.indent) \o parsed.name \o Chars(" ")
                                 \o compound_rust_operator(parsed.value.op) \o Chars(";")
                         ELSE indent_str(parsed.indent) \o parsed.name \o Chars(" = ")
                                 \o generate_expression(parsed.value) \o Chars(";"),
                         parsed.comment)
      [] parsed.kind = "Comment" -> indent_str(parsed.indent) \o parsed.content
      [] parsed.kind = "Empty" -> <<>>

(***************************************************************************)
(* main.rs: the translation run.  main.rs declares no modules: the calls   *)
(* in transpile_pd_to_rs resolve to the functions main.rs itself defines,  *)
(* whose statements keep a value as target text.                           *)
(***************************************************************************)
main_split_code_and_comment(line) == split_scanned(line, split_scan(line, FALSE, FALSE, <<>>))

\* The numeric arms and the fallback arm of parse_value's final match.
main_numeric_value(trimmed, type_name) ==
    IF is_integer_type(type_name)
    THEN IF parse_i64_ok(trimmed) THEN Ok(trimmed)
         ELSE Err(<<"BadNumericValue", type_name>>, 1, 1)
    ELSE IF type_name \in {Chars("float"), Chars("double")}
    THEN IF parse_f64_ok(trimmed)
         THEN Ok(trimmed \o (IF type_name = Chars("float") THEN Chars("f32") ELSE Chars("f64")))
         ELSE Err(<<"BadFloatValue", type_name>>, 1, 1)
    ELSE IF get_type_mapping(type_name) = None THEN Err(<<"UnknownType", type_name>>, 1, 1)
    ELSE Ok(trimmed)

\* The quoted arms: char, str, string, bytes, bytearray.
main_quoted_value(trimmed, type_name, skip_front, prefix, suffix) ==
    IF ~slice_ok(trimmed, skip_front, Len(trimmed) - 1) THEN Panic
    ELSE Ok(prefix \o escape_string_for_rust(slice(trimmed, skip_front, Len(trimmed) - 1))
               \o suffix)

main_value_trimmed(trimmed, type_name, vtab) ==
    IF trimmed \in DOMAIN vtab THEN Ok(trimmed)
    ELSE IF trimmed = Chars("True") /\ type_name = Chars("bool") THEN Ok(Chars("true"))
    ELSE IF trimmed = Chars("False") /\ type_name = Chars("bool") THEN Ok(Chars("false"))
    ELSE IF trimmed = Chars("None") /\ type_name = Chars("None") THEN Ok(Chars("()"))
    ELSE IF type_name = Chars("char") /\ starts_with(trimmed, Chars("'"))
              /\ ends_with(trimmed, Chars("'")) /\ Len(trimmed) >= 3
    THEN main_quoted_value(trimmed, type_name, 1, Chars("'"), Chars("'"))
    ELSE IF type_name = Chars("str") /\ starts_with(trimmed, Chars("\""))
              /\ ends_with(trimmed, Chars("\""))
    THEN main_quoted_value(trimmed, type_name, 1, Chars("\""), Chars("\""))
    ELSE IF type_name = Chars("string") /\ starts_with(trimmed, Chars("\""))
              /\ ends_with(trimmed, Chars("\""))
    THEN main_quoted_value(trimmed, type_name, 1, Chars("String::from(\""), Chars("\")"))
    ELSE IF type_name = Chars("bytes") /\ starts_with(trimmed, Chars("b\""))
              /\ ends_with(trimmed, Chars("\""))
    THEN main_quoted_value(trimmed, type_name, 2, Chars("b\""), Chars("\""))
    ELSE IF type_name = Chars("bytearray") /\ starts_with(trimmed, Chars("b\""))
              /\ ends_with(trimmed, Chars("\""))
    THEN main_quoted_value(trimmed, type_name, 2, Chars("b\""), Chars("\".to_vec()"))
    ELSE main_numeric_value(trimmed, type_name)

main_parse_value(value_str, type_name, vtab) == main_value_trimmed(trim(value_str), type_name, vtab)

main_declaration_result(var_name, type_part, value_res, declared, comment_trimmed, indent) ==
    IF ~IsOk(value_res) THEN Returns(value_res, declared)
    ELSE Returns(Ok(VariableDecl(var_name, type_part, Some(value_res.val), comment_trimmed, indent)),
                 declared)

main_declaration_typed(var_name, type_part, value_part, declared, comment_trimmed, indent) ==
    IF value_part = None
    THEN Returns(Ok(VariableDecl(var_name, type_part, None, comment_trimmed, indent)), declared)
    ELSE main_declaration_result(var_name, type_part,
                                 main_parse_value(trim(value_part[1]), type_part, declared),
                                 declared, comment_trimmed, indent)

main_declaration_parts(var_name, part0, value_part, colon_pos, comment_trimmed, indent, line_num, vtab) ==
    IF get_type_mapping(trim(part0)) = None
    THEN Returns(Err(<<"UnknownType", trim(part0)>>, line_num, colon_pos + 2), vtab)
    ELSE main_declaration_typed(var_name, trim(part0), value_part,
                                insert(vtab, var_name, trim(part0)), comment_trimmed, indent)

main_declaration_named(var_name, after_colon, colon_pos, comment_trimmed, indent, line_num, vtab) ==
    IF var_name = <<>> THEN Returns(Err(<<"MissingVariableName">>, line_num, 1), vtab)
    ELSE IF ~is_alphabetic(Head(var_name))
    THEN Returns(Err(<<"NameMustStartWithLetter">>, line_num, 1), vtab)
    ELSE main_declaration_parts(var_name, splitn_first(after_colon, find(after_colon, Chars("="))),
                                splitn_second(after_colon, find(after_colon, Chars("="))),
                                colon_pos, comment_trimmed, indent, line_num, vtab)

main_parse_declaration(trimmed_code, colon_pos, comment_trimmed, indent, line_num, vtab) ==
    main_declaration_named(trim(slice(trimmed_code, 0, colon_pos)),
                           trim(slice(trimmed_code, colon_pos + 1, Len(trimmed_code))),
                           colon_pos, comment_trimmed, indent, line_num, vtab)

main_assignment_value(left_side, parsed_value, comment_trimmed, indent) ==
    IF ~IsOk(parsed_value) THEN parsed_value
    ELSE Ok(VariableAssign(left_side, parsed_value.val, comment_trimmed, indent))

main_assignment_sides(left_side, right_side, comment_trimmed, indent, line_num, vtab) ==
    IF left_side # <<>> /\ is_alphabetic(Head(left_side))
    THEN IF left_side \notin DOMAIN vtab
         THEN Err(<<"UndeclaredVariable", left_side>>, line_num, 1)
         ELSE main_assignment_value(left_side,
                                    main_parse_value(right_side, vtab[left_side], vtab),
                                    comment_trimmed, indent)
    ELSE unrecognized(line_num)

main_parse_assignment(trimmed_code, equals_pos, comment_trimmed, indent, line_num, vtab) ==
    main_assignment_sides(trim(slice(trimmed_code, 0, equals_pos)),
                          trim(slice(trimmed_code, equals_pos + 1, Len(trimmed_code))),
                          comment_trimmed, indent, line_num, vtab)

\* The empty-line and print branches of main.rs's parse_line are the text of
\* parser.rs's, statement for statement.
main_classify(trimmed_code, comment_trimmed, indent, line_num, vtab) ==
    IF trimmed_code = <<>> THEN Returns(parse_empty(comment_trimmed, indent), vtab)
    ELSE IF starts_with(trimmed_code, Chars("print"))
    THEN Returns(parse_print(trimmed_code, find(trimmed_code, Chars("(")),
                             find(trimmed_code, Chars(")")), comment_trimmed, indent, line_num),
                 vtab)
    ELSE IF contains(trimmed_code, Chars(":"))
    THEN main_parse_declaration(trimmed_code, find(trimmed_code, Chars(":")), comment_trimmed,
                                indent, line_num, vtab)
    ELSE IF contains(trimmed_code, Chars("="))
    THEN Returns(main_parse_assignment(trimmed_code, find(trimmed_code, Chars("=")),
                                       comment_trimmed, indent, line_num, vtab), vtab)
    ELSE Returns(unrecognized(line_num), vtab)

main_parse_parts(parts, indent, line_num, vtab) ==
    main_classify(trim(parts.code), trim_comment(parts.comment), indent, line_num, vtab)

main_parse_line(line, line_num, vtab) ==
    main_parse_parts(main_split_code_and_comment(line), leading_whitespace(line), line_num, vtab)

main_rust_value(parsed) ==
    IF parsed.value = None THEN get_default_value(parsed.type_name) ELSE parsed.value[1]

main_generate_rust_line(parsed) ==
    CASE parsed.kind = "Print" ->
            with_comment(indent_str(parsed.indent) \o Chars("println!(\"") \o parsed.content
                            \o Chars("\");"), parsed.comment)
      [] parsed.kind = "VariableDecl" ->
            with_comment(indent_str(parsed.indent) \o Chars("let ") \o parsed.name \o Chars(": ")
                            \o rust_type_of(parsed.type_name) \o Chars(" = ")
                            \o main_rust_value(parsed) \o Chars(";"), parsed.comment)
      [] parsed.kind = "VariableAssign" ->
            with_comment(indent_str(parsed.indent) \o parsed.name \o Chars(" = ") \o parsed.value
                            \o Chars(";"), parsed.comment)
      [] parsed.kind = "Comment" -> indent_str(parsed.indent) \o parsed.content
      [] parsed.kind = "Empty" -> <<>>

\* A check that would take any parsed line for executable code: the test the
\* code does not make.
has_any_parsed_line(parsed_lines) == parsed_lines # <<>>

has_executable_code(parsed_lines) ==
    \E k \in 1..Len(parsed_lines) : parsed_lines[k].kind \in {"Print", "VariableDecl"}

\* A generation loop that would push nothing for an empty rendered line.
push_line_skip_blank(line) ==
    IF line = <<>> THEN <<>> ELSE Chars("    ") \o line \o Chars("\n")

\* One iteration of the generation loop: what is pushed for one rendered line.
push_line(line) == IF line = <<>> THEN Chars("\n") ELSE Chars("    ") \o line \o Chars("\n")

RECURSIVE rust_body(_)
rust_body(parsed_lines) ==
    IF parsed_lines = <<>> THEN <<>>
    ELSE push_line(main_generate_rust_line(Head(parsed_lines))) \o rust_body(Tail(parsed_lines))

rust_code(parsed_lines) == Chars("fn main() {\n") \o rust_body(parsed_lines) \o Chars("}")

(***************************************************************************)
(* Inputs.                                                                 *)
(***************************************************************************)
MaxIndent == 2
MaxOps == 2
MaxColumn == 2

EmptyTable == [n \in {} |-> <<>>]

\* The Symbol Table holding the given <<name, type>> pairs.
Table(pairs) == [n \in {Chars(p[1]) : p \in pairs} |->
                    Chars((CHOOSE p \in pairs : Chars(p[1]) = n)[2])]

Indented(k, text) == repeat(" ", k) \o text

DeclLines ==
    {Chars(l) : l \in {"x: int = 5", "s: str = \"hi\"", "f: float = 1.5", "s: str = 5",
                       "n: int64 = 5", "b: bool = 1.5", "b: bool", "q: wat = 1",
                       "x: str = \"a\"", "y: int = zz", "n: int = 10"}}

AssignNames == {Chars("x"), Chars("s"), Chars("f")}

AssignValues ==
    {Chars(e) : e \in {"3", "1.5", "\"a\"", "\"a:b\"", "x", "x + 1", "x += 3", "True", "zz",
                       "Vec::new()"}}

AssignLine(v, e) == v \o Chars(" = ") \o e

CompoundSpellings == {Chars(k) : k \in {"+=", "-=", "*=", "/=", "//=", "%=", "|=", "&=", "^="}}

CompoundLine(v, k, e) == v \o Chars(" ") \o k \o Chars(" ") \o e

BlankLines == {Indented(k, <<>>) : k \in 0..MaxIndent} \cup {<<"\t">>}

CommentLines ==
    {Indented(k, Chars(c)) : k \in 0..MaxIndent, c \in {"# note", "#", "#note"}}
        \cup {<<"\t">> \o Chars("# note")}

OtherLines ==
    {Chars(l) : l \in {"print(\"done\")", "  print(\"hi\") # c", "print )(", "print \"x\"",
                       "print(5)", "x", ": int", "1x: int = 5", "x = 3 # c"}}
        \cup {Chars("s: str = \"") \o <<Wide, Cont>> \o Chars("\"")}

\* Lines whose slices fall out of range or off a character boundary, and lines
\* with unbalanced parentheses.
SliceLines ==
    {Chars(l) : l \in {"print(\")", "s: str = \"", "s: bytes = b\"", "x = \"", "x = (1",
                       "x = 1)", "x = )("}}
        \cup {Chars("x = ") \o <<Wide, Cont>>}

\* Lines for the order of classification: a colon inside a print argument, after
\* an `=`, alone; an `=` with no name on its left.
ClassifyLines ==
    {Chars(l) : l \in {"print(\"a: b\")", "x = 1 : 2", ":", "= 3", "3 = x", "x: int = 5 = 6",
                       "s = \"a\" # b: c"}}

\* Print lines whose argument is more than one string literal.
PrintLines ==
    {Chars(l) : l \in {"print(\"a\" + \"b\")", "print(\"a\", \"b\")", "print(x)",
                       "print(\"a\\\"b\")", "print(\"\")"}}

\* Assignments whose value is a compound assignment.
CompoundValueLines == {Chars(l) : l \in {"x = x -= 1 # c", "  x = x *= 2", "x = x /= x + 1"}}

\* Lines with a colon after an `=` or after two words: declarations of the name
\* made of everything before the colon.
FrameLines == {Chars(l) : l \in {"x = 1: int", "x y: int", "x = 2 # n: int", "print(\"n: int\")"}}

\* Lines with comment markers inside quoted literals, after a backslash, directly
\* before the comment text and at the end of the line.
MarkerLines ==
    {Chars(l) : l \in {"print(\"a#b\") # c", "x = 3 #c", "x = 3 #", "s = \"a\\\"#b\" # d",
                       "\\# x # y", "c: char = '#'", "# a # b", "x = \"a # b", "it's # x", "##",
                       "\\\\# z", "s = \"a\" 'b' #c"}}
        \cup {Chars("\\") \o <<Wide, Cont>> \o Chars("#c")}

\* Texts for the inside of a double-quoted literal: operator characters,
\* parentheses and a compound spelling among them.
QuotedInners == {Chars(t) : t \in {"a+b", "a-b", "a*b", "a/b", "a%b", "a|b", "a&b", "a^b", "(a)",
                                   "a += b", "a b"}}

Quoted(inner) == Chars("\"") \o inner \o Chars("\"")

QuotedLines ==
    {Chars("s = ") \o Quoted(t) : t \in QuotedInners}
        \cup {Chars("s: str = ") \o Quoted(t) : t \in QuotedInners}

LineCorpus ==
    DeclLines \cup {AssignLine(v, e) : v \in AssignNames, e \in AssignValues}
        \cup {CompoundLine(Chars("x"), k, Chars("3")) : k \in CompoundSpellings}
        \cup BlankLines \cup CommentLines \cup OtherLines \cup SliceLines
        \cup ClassifyLines \cup PrintLines \cup CompoundValueLines
        \cup FrameLines \cup MarkerLines \cup QuotedLines

\* Expressions: chains  a op b op c ...  of up to MaxOps operators at depth zero.
OpSpellings == {PRECEDENCE[k].str : k \in 1..Len(PRECEDENCE)}

OpSeqs == UNION {[1..n -> OpSpellings] : n \in 0..MaxOps}

Operand(k) == <<Chars("123456789")[k]>>

RECURSIVE chain_from(_, _, _)
chain_from(first, os, k) ==
    (IF k = 1 THEN first ELSE Operand(k))
        \o (IF k > Len(os) THEN <<>> ELSE Chars(" ") \o os[k] \o Chars(" ") \o chain_from(first, os, k + 1))

Chain(first, os) == chain_from(first, os, 1)

FirstOperands == {Chars("1"), Chars("x")}

LiteralTokens ==
    {Chars(e) : e \in {"5", "1.5", "True", "False", "None", "\"hi\"", "'c'", "b\"ab\"",
                       "Vec::new()", "vec![]", "-5", "-1.5", "\"a+b\"", "\"a\\nb\"", "'-'",
                       "b\"a|b\"", " 7 ", "\"", "1e5", "9223372036854775808"}}

OtherExprs ==
    {Chars(e) : e \in {"zz", "1 + zz", "zz + 1", "-zz", "~zz", "(zz)", "x += zz", "zz += 1",
                       "x += 3", "x //= 2", "s += 1", "(1 + 2) * 3", "~x", "(x)", "1 + 1.5",
                       "s + s", "1.5 % 2.5", "", "(1", "x += x += 1", "8 / 2 * 2", "-x", "-(1 + 2)",
                       "-s", "~5", "~s", "~1.5", "1.5 // 2.5", "x /= 2", "x //= x", "x % x", "x | x", "x + x",
                       "s + 1", "(x + 1.5) * 2", "2 * (1 + 3)", "(1 | 2)", "((1 + 2))",
                       "(1 + 2) * (3 | 4)", "(1 * 2 + 3)", "1) + (2", "(1)(2)", "(1 + 2", "( x )"}}
        \cup {Chars("\"") \o <<Wide, Cont>> \o Chars("\"")}

ExprCorpus == LiteralTokens \cup OtherExprs

ExprTables ==
    {EmptyTable, Table({<<"x", "int">>}), Table({<<"x", "int">>, <<"s", "str">>}),
     Table({<<"x", "float">>})}

MainCorpus ==
    {Chars(l) : l \in {"n: int = 10", "print(\"done\")", "", "  ", "# c", "  print(\"hi\") # c",
                       "x: int = abc", "y = 1", "n = 5", "print(5)", "print )(", "f: float = 1.5",
                       "m: int"}}

MainInputs == UNION {[1..n -> MainCorpus] : n \in 0..MaxLines}

(***************************************************************************)
(* The record of the latest call: its arguments, the Symbol Table before   *)
(* it, what it returned and, when it returned Ok, the generator's text.    *)
(***************************************************************************)
Called(op, input, ops, column, before, ret, rendered) ==
    [op |-> op, input |-> input, ops |-> ops, column |-> column, before |-> before, ret |-> ret,
     rendered |-> rendered]

NoCall == Called("none", <<>>, <<>>, 0, EmptyTable, Ok(Empty), None)

rendered_line(ret) == IF IsOk(ret) THEN Some(generate_rust_line(ret.val)) ELSE None

rendered_expression(ret) == IF IsOk(ret) THEN Some(generate_expression(ret.val)) ELSE None

(***************************************************************************)
(* Spec: parser.rs and generator.rs driven line by line with one Symbol    *)
(* Table, stopping at the first line that does not return Ok.              *)
(***************************************************************************)
Init ==
    /\ lines = <<>>
    /\ line_idx = 0
    /\ variables = EmptyTable
    /\ rust_lines = <<>>
    /\ pc = "parsing"
    /\ err = None
    /\ output = None
    /\ last = NoCall

LineParsed(line, r) ==
    /\ variables' = r.variables
    /\ last' = Called("parse_line", line, <<>>, 0, variables, r.ret, rendered_line(r.ret))
    /\ line_idx' = line_idx + 1
    /\ UNCHANGED <<lines, rust_lines, pc, err, output>>

ParseLine(line) ==
    /\ line_idx < MaxLines
    /\ IsOk(last.ret)
    /\ LineParsed(line, parse_line(line, line_idx + 1, variables))

Next == \E line \in LineCorpus : ParseLine(line)

Spec == Init /\ [][Next]_vars

(***************************************************************************)
(* ExprSpec: one call of parse_expression against a Symbol Table, and the  *)
(* generator's text for the tree it returns.                               *)
(***************************************************************************)
ExprInit ==
    /\ lines = <<>>
    /\ line_idx = 0
    /\ variables \in ExprTables
    /\ rust_lines = <<>>
    /\ pc = "parsing"
    /\ err = None
    /\ output = None
    /\ last = NoCall

ExpressionParsed(expr, os, column, ret) ==
    /\ last' = Called("parse_expression", expr, os, column, variables, ret, rendered_expression(ret))
    /\ UNCHANGED <<lines, line_idx, variables, rust_lines, pc, err, output>>

ParseExpression(expr, column) ==
    /\ last = NoCall
    /\ ExpressionParsed(expr, <<>>, column, parse_expression(expr, variables, 1, column))

ParseChain(first, os, column) ==
    /\ last = NoCall
    /\ ExpressionParsed(Chain(first, os), os, column,
                        parse_expression(Chain(first, os), variables, 1, column))

ExprNext ==
    \/ \E expr \in ExprCorpus, column \in 1..MaxColumn : ParseExpression(expr, column)
    \/ \E first \in FirstOperands, os \in OpSeqs, column \in 1..MaxColumn :
          ParseChain(first, os, column)

ExprSpec == ExprInit /\ [][ExprNext]_vars

(***************************************************************************)
(* MainSpec: transpile_pd_to_rs of main.rs over the lines of an input      *)
(* file.  Reading and writing the files are taken to succeed.              *)
(***************************************************************************)
MainInit ==
    /\ lines \in MainInputs
    /\ line_idx = 0
    /\ variables = EmptyTable
    /\ rust_lines = <<>>
    /\ pc = "parsing"
    /\ err = None
    /\ output = None
    /\ last = NoCall

\* The body of the parsing loop for the outcome r of parse_line.
LoopBody(r) ==
    /\ variables' = r.variables
    /\ IF IsOk(r.ret)
       THEN /\ rust_lines' = Append(rust_lines, r.ret.val)
            /\ line_idx' = line_idx + 1
            /\ UNCHANGED <<pc, err>>
       ELSE IF IsErr(r.ret)
       THEN /\ pc' = "failed"
            /\ err' = Some(r.ret.val)
            /\ UNCHANGED <<rust_lines, line_idx>>
       ELSE /\ pc' = "panicked"
            /\ UNCHANGED <<rust_lines, line_idx, err>>
    /\ UNCHANGED <<lines, output, last>>

ParseNext ==
    /\ pc = "parsing"
    /\ line_idx < Len(lines)
    /\ LoopBody(main_parse_line(lines[line_idx + 1], line_idx + 1, variables))

\* After the loop: the has_executable_code check, the generation and the write.
Finish ==
    /\ pc = "parsing"
    /\ line_idx = Len(lines)
    /\ IF ~has_executable_code(rust_lines)
       THEN /\ pc' = "failed"
            /\ err' = Some(TranspilerError(<<"NoExecutableCode">>, 1, 1))
            /\ UNCHANGED output
       ELSE /\ pc' = "done"
            /\ output' = Some(rust_code(rust_lines))
            /\ UNCHANGED err
    /\ UNCHANGED <<lines, line_idx, variables, rust_lines, last>>

MainNext == ParseNext \/ Finish

MainSpec == MainInit /\ [][MainNext]_vars

(***************************************************************************)
(* Properties.                                                             *)
(***************************************************************************)
LineCall == last.op = "parse_line"
ExpressionCall == last.op = "parse_expression"

\* The tree and type parse_expression gives the text e against the table of the call.
Resolved(e) == parse_expression(e, last.before, 1, 1)
ResolvesTo(e, type_name) == IsOk(Resolved(e)) /\ get_type(Resolved(e).val) = type_name

AssignmentOf(v, e) == LineCall /\ last.input = AssignLine(v, e) /\ v \in DOMAIN last.before

AcceptedAssign(v, e) ==
    /\ IsOk(last.ret)
    /\ last.ret.val.kind = "VariableAssign"
    /\ last.ret.val.name = v
    /\ last.ret.val.value = Resolved(e).val

AssignIffTypeEqual(v, e) ==
    /\ AcceptedAssign(v, e) <=> ResolvesTo(e, last.before[v])
    /\ (IsOk(Resolved(e)) /\ ~ResolvesTo(e, last.before[v]))
          => /\ IsErr(last.ret)
             /\ last.ret.val.message =
                   <<"TypeMismatchAssign", get_type(Resolved(e).val), last.before[v]>>

C2_DeclInitializerTyped ==
    (LineCall /\ IsOk(last.ret) /\ last.ret.val.kind = "VariableDecl" /\ last.ret.val.value # None)
        => get_type(last.ret.val.value[1]) = last.ret.val.type_name

compound_operator(k) ==
    compound_ops[CHOOSE i \in 1..Len(compound_ops) : Chars(compound_ops[i][1]) = k][2]

\* C3: with x declared int, the line `x k 3` for a compound operator spelling k is
\* accepted as an assignment to x whose value is the CompoundAssign node of k on the
\* literal 3, and is rendered as the single line `x k 3;` in the target's spelling.
C3_CompoundLineAccepted ==
    \A k \in CompoundSpellings :
        (/\ LineCall
         /\ last.input = CompoundLine(Chars("x"), k, Chars("3"))
         /\ Chars("x") \in DOMAIN last.before
         /\ last.before[Chars("x")] = Chars("int"))
        => /\ IsOk(last.ret)
           /\ last.ret.val.kind = "VariableAssign"
           /\ last.ret.val.name = Chars("x")
           /\ last.ret.val.value =
                 CompoundAssign(Chars("x"), compound_operator(k),
                                Literal(Chars("3"), Chars("int")), Chars("int"))
           /\ last.rendered =
                 Some(Chars("x ") \o compound_rust_operator(compound_operator(k)) \o Chars(" 3;"))

BitwiseSpellings == {Chars("|"), Chars("^"), Chars("&")}
AdditiveSpellings == {Chars("+"), Chars("-")}
MultiplicativeSpellings == {Chars("*"), Chars("/"), Chars("//"), Chars("%")}

Uses(os, spellings) == \E k \in 1..Len(os) : os[k] \in spellings

LoosestBitwise(os) ==
    IF Uses(os, {Chars("|")}) THEN "BitwiseOr"
    ELSE IF Uses(os, {Chars("^")}) THEN "BitwiseXor"
    ELSE "BitwiseAnd"

\* The chain of the call has integer operands only.
IntegerChain ==
    /\ ExpressionCall
    /\ last.ops # <<>>
    /\ \/ Head(last.input) = "1"
       \/ Chars("x") \in DOMAIN last.before /\ last.before[Chars("x")] = Chars("int")

IntLiteral(d) == Literal(Chars(d), Chars("int"))

UndeclaredReferences ==
    { [text |-> "zz", offset |-> 0, needs_x |-> FALSE],
      [text |-> "1 + zz", offset |-> 4, needs_x |-> FALSE],
      [text |-> "zz + 1", offset |-> 0, needs_x |-> FALSE],
      [text |-> "-zz", offset |-> 1, needs_x |-> FALSE],
      [text |-> "~zz", offset |-> 1, needs_x |-> FALSE],
      [text |-> "(zz)", offset |-> 1, needs_x |-> FALSE],
      [text |-> "x += zz", offset |-> 5, needs_x |-> TRUE] }

\* C5: an identifier that is not in the Symbol Table, in any expression position,
\* makes parsing fail with the undeclared-variable error at the column of the
\* reference.
C5_UndeclaredReference ==
    \A r \in UndeclaredReferences :
        (/\ ExpressionCall
         /\ last.input = Chars(r.text)
         /\ Chars("zz") \notin DOMAIN last.before
         /\ r.needs_x => Chars("x") \in DOMAIN last.before)
        => /\ IsErr(last.ret)
           /\ last.ret.val.message = <<"UndeclaredVariable", Chars("zz")>>
           /\ last.ret.val.column = last.column + r.offset

\* C6: the run over `n: int = 10` and `print("done")` succeeds and writes one entry
\* block holding, in order and with one indentation, `let mut n: i32 = 10;` and
\* `println!("done");`.
C6_TwoLineProgram ==
    (lines = <<Chars("n: int = 10"), Chars("print(\"done\")")>> /\ pc # "parsing")
        => /\ pc = "done"
           /\ output = Some(Chars("fn main() {\n    let mut n: i32 = 10;\n    println!(\"done\");\n}"))

\* C7: when a line fails to parse, the run stops with that line's error carrying
\* the line's 1-based number, every earlier line and no later line has been
\* parsed, and nothing is written.
C7_FailFast ==
    (pc = "failed" /\ line_idx < Len(lines))
        => /\ err # None
           /\ err[1].line = line_idx + 1
           /\ Len(rust_lines) = line_idx
           /\ output = None

\* Literal tokens by category, with the type and the equivalent target token.
LiteralCases ==
    { [pando |-> "5", type |-> "int", rust |-> "5"],
      [pando |-> "1.5", type |-> "float", rust |-> "1.5"],
      [pando |-> "True", type |-> "bool", rust |-> "true"],
      [pando |-> "False", type |-> "bool", rust |-> "false"],
      [pando |-> "None", type |-> "None", rust |-> "()"],
      [pando |-> "\"hi\"", type |-> "str", rust |-> "\"hi\""],
      [pando |-> "'c'", type |-> "char", rust |-> "'c'"],
      [pando |-> "b\"ab\"", type |-> "bytes", rust |-> "b\"ab\""],
      [pando |-> "Vec::new()", type |-> "bytearray", rust |-> "Vec::new()"],
      [pando |-> "vec![]", type |-> "bytearray", rust |-> "Vec::new()"],
      [pando |-> "-5", type |-> "int", rust |-> "-5"],
      [pando |-> "-1.5", type |-> "float", rust |-> "-1.5"],
      [pando |-> "\"a+b\"", type |-> "str", rust |-> "\"a+b\""],
      [pando |-> "\"a\\nb\"", type |-> "str", rust |-> "\"a\\nb\""],
      [pando |-> "'-'", type |-> "char", rust |-> "'-'"],
      [pando |-> "b\"a|b\"", type |-> "bytes", rust |-> "b\"a|b\""] }

\* C8: each literal token, negative numbers and tokens with escapes or operator
\* characters included, parses as a whole expression to a Literal of the matching
\* type, and the generator gives back an equivalent token.
C8_LiteralRoundTrip ==
    \A c \in LiteralCases :
        (ExpressionCall /\ last.input = Chars(c.pando))
        => /\ IsOk(last.ret)
           /\ last.ret.val.tag = "Literal"
           /\ get_type(last.ret.val) = Chars(c.type)
           /\ last.rendered = Some(Chars(c.rust))

\* C9 (as amended): a comment-only line with k leading whitespace characters is
\* rendered with exactly k spaces before the comment marker, and a blank line,
\* whatever its width, is rendered as the empty line.
C9_IndentationOfComments ==
    LineCall =>
        /\ last.input \in CommentLines
           => /\ IsOk(last.ret)
              /\ starts_with(last.rendered[1],
                             repeat(" ", leading_whitespace(last.input)) \o Chars("//"))
        /\ last.input \in BlankLines
           => /\ IsOk(last.ret)
              /\ last.rendered = Some(<<>>)

\* C9 (as stated): blank lines and comment-only lines alike are rendered with
\* exactly their k leading whitespace characters.
C9_IndentationPreserved ==
    (LineCall /\ last.input \in BlankLines \cup CommentLines)
        => /\ IsOk(last.ret)
           /\ leading_whitespace(last.rendered[1]) = leading_whitespace(last.input)

C9_Witness ==
    /\ LineCall
    /\ last.input = Indented(1, Chars("#note"))
    /\ last.rendered = Some(Chars(" // note"))

\* The text split at its newline characters.
RECURSIVE split_newlines(_, _)
split_newlines(text, current) ==
    IF text = <<>> THEN <<current>>
    ELSE IF Head(text) = "\n" THEN <<current>> \o split_newlines(Tail(text), <<>>)
    ELSE split_newlines(Tail(text), Append(current, Head(text)))

\* A Symbol Table with every name the lines of MainCorpus declare.
CorpusTable ==
    Table({<<"n", "int">>, <<"x", "int">>, <<"f", "float">>, <<"m", "int">>})

\* The rendering of input line i on its own.
RenderingOf(i) == main_generate_rust_line(main_parse_line(lines[i], i, CorpusTable).ret.val)

BodyLine(i) == IF RenderingOf(i) = <<>> THEN <<>> ELSE Chars("    ") \o RenderingOf(i)

EntryBlock(segments) ==
    /\ Len(segments) = Len(lines) + 2
    /\ segments[1] = Chars("fn main() {")
    /\ segments[Len(segments)] = Chars("}")
    /\ \A i \in 1..Len(lines) :
          /\ segments[i + 1] = BodyLine(i)
          /\ trim(lines[i]) = <<>> => segments[i + 1] = <<>>

RunOverParsedLines == pc \in {"done", "failed"} /\ Len(rust_lines) = Len(lines)

RunWroteEntryBlock ==
    /\ pc = "done"
    /\ output # None
    /\ EntryBlock(split_newlines(output[1], <<>>))

\* C10 (as amended): for every input of n lines that all parse, one of them at
\* least a print statement or a declaration, the output is one entry block whose
\* body has exactly n lines, body line i the rendering of input line i and every
\* blank input line an empty output line.
C10_BodyLineForLine ==
    (RunOverParsedLines /\ has_executable_code(rust_lines)) => RunWroteEntryBlock

\* C10 (as stated): the same for every input of n lines that all parse.
C10_BodyLineForLine_AnyInput == RunOverParsedLines => RunWroteEntryBlock

C10_Witness ==
    /\ lines = <<Chars("n: int = 10"), Chars("  ")>>
    /\ RunWroteEntryBlock

\* C11: parse_line is total: for every line and every Symbol Table it returns a
\* statement or an error with message, line and column, and never panics.
C11_ParseLineTotal ==
    LineCall =>
        \/ IsOk(last.ret)
        \/ /\ IsErr(last.ret)
           /\ DOMAIN last.ret.val = {"message", "line", "column"}

\* The trimmed code segment and the comment of the line of the call.
CodeOf(line) == trim(split_code_and_comment(line).code)
CommentOf(line) == trim_comment(split_code_and_comment(line).comment)

PrintOutcome(ret) ==
    \/ IsPanic(ret)
    \/ IsOk(ret) /\ ret.val.kind = "Print"
    \/ IsErr(ret) /\ ret.val.message[1] \in {"PrintMissingParens", "PrintArgNotString"}

\* What the declaration rule alone gives for the code segment of the call.
DeclarationRule(code) ==
    parse_declaration(code, find(code, Chars(":")), CommentOf(last.input),
                      leading_whitespace(last.input), line_idx, last.before).ret

\* What the assignment rule alone gives for the code segment of the call.
AssignmentRule(code) ==
    parse_assignment(code, find(code, Chars("=")), CommentOf(last.input),
                     leading_whitespace(last.input), line_idx, last.before)

DeclarationOutcome(ret) ==
    /\ IsOk(ret) => ret.val.kind = "VariableDecl"
    /\ IsErr(ret) => ret.val.message[1] \notin {"TypeMismatchAssign", "UnrecognizedConstruct",
                                                "PrintMissingParens", "PrintArgNotString"}

ClassifiedInOrder(code) ==
    IF code = <<>> THEN IsOk(last.ret) /\ last.ret.val.kind \in {"Empty", "Comment"}
    ELSE IF starts_with(code, Chars("print")) THEN PrintOutcome(last.ret)
    ELSE IF contains(code, Chars(":"))
    THEN last.ret = DeclarationRule(code) /\ DeclarationOutcome(last.ret)
    ELSE IF contains(code, Chars("="))
    THEN /\ last.ret = AssignmentRule(code)
         /\ IsOk(last.ret) => last.ret.val.kind = "VariableAssign"
    ELSE last.ret = Err(<<"UnrecognizedConstruct">>, line_idx, 1)

\* C12: classification follows the order empty, print, declaration, assignment,
\* syntax error: a non-empty code segment that does not start with `print` and
\* holds a colon anywhere is handled by the declaration rule, never by the
\* assignment rule, also when it holds `=` or the colon lies inside a quoted
\* literal on the right of `=`.
C12_ClassificationOrder == LineCall => ClassifiedInOrder(CodeOf(last.input))

C12_Witness ==
    /\ LineCall
    /\ last.input = Chars("s = \"a:b\"")
    /\ Chars("s") \in DOMAIN last.before
    /\ IsErr(last.ret)
    /\ last.ret.val.message[1] = "UnknownType"

\* An unescaped double quote occurs in s.
RECURSIVE has_bare_quote(_, _)
has_bare_quote(s, escaped) ==
    IF s = <<>> THEN FALSE
    ELSE IF escaped THEN has_bare_quote(Tail(s), FALSE)
    ELSE IF Head(s) = "\\" THEN has_bare_quote(Tail(s), TRUE)
    ELSE Head(s) = "\"" \/ has_bare_quote(Tail(s), FALSE)

\* The text is one double-quoted string literal: a quote, text without a bare
\* quote, a quote.
SingleStringLiteral(args) ==
    /\ Len(args) >= 2
    /\ Head(args) = "\""
    /\ args[Len(args)] = "\""
    /\ ~has_bare_quote(SubSeq(args, 2, Len(args) - 1), FALSE)

\* The text between the first `(` and the last `)` of a print line.
RECURSIVE rfind(_, _)
rfind(s, c) == IF s = <<>> THEN 0 ELSE IF s[Len(s)] = c THEN Len(s) ELSE rfind(SubSeq(s, 1, Len(s) - 1), c)

PrintArgument(code) == trim(SubSeq(code, find(code, Chars("(")) + 2, rfind(code, ")") - 1))

PrintLine(code) ==
    /\ starts_with(code, Chars("print"))
    /\ find(code, Chars("(")) # NotFound
    /\ rfind(code, ")") > find(code, Chars("(")) + 1

\* C13: a print line is accepted only when its parenthesized argument is one
\* double-quoted string literal, with the escaped text between the quotes as its
\* content; any other argument is rejected with an error.
C13_PrintOnlyStringLiteral ==
    (LineCall /\ PrintLine(CodeOf(last.input))) =>
        IF SingleStringLiteral(PrintArgument(CodeOf(last.input)))
        THEN /\ IsOk(last.ret)
             /\ last.ret.val.kind = "Print"
             /\ last.ret.val.content
                    = escape_string_for_rust(SubSeq(PrintArgument(CodeOf(last.input)), 2,
                                                    Len(PrintArgument(CodeOf(last.input))) - 1))
        ELSE IsErr(last.ret)

-----------------------------------------------------------------------------
\* A session of parse_line calls over one Symbol Table that keeps the lines
\* parsed so far in `lines`: declarations and redeclarations of x and y, then
\* assignments to them.

MaxSession == 3

\* The declaration lines of the session, with the name and type each declares.
SessionDecls ==
    {[text |-> Chars("x: int"), name |-> Chars("x"), type |-> Chars("int")],
     [text |-> Chars("x: str"), name |-> Chars("x"), type |-> Chars("str")],
     [text |-> Chars("x: float = 1.5"), name |-> Chars("x"), type |-> Chars("float")],
     [text |-> Chars("y: int"), name |-> Chars("y"), type |-> Chars("int")]}

\* The assignment lines of the session, with the name assigned and the value text.
SessionAssigns ==
    {[text |-> AssignLine(Chars(a[1]), Chars(a[2])), name |-> Chars(a[1]), value |-> Chars(a[2])] :
        a \in {<<"x", "3">>, <<"x", "\"a\"">>, <<"x", "1.5">>, <<"x", "x + 1">>, <<"x", "x">>,
               <<"y", "x">>}}

SessionCorpus == {d.text : d \in SessionDecls} \cup {a.text : a \in SessionAssigns}

SessionInit ==
    /\ lines = <<>>
    /\ line_idx = 0
    /\ variables = EmptyTable
    /\ rust_lines = <<>>
    /\ pc = "parsing"
    /\ err = None
    /\ output = None
    /\ last = NoCall

SessionParsed(line, r) ==
    /\ lines' = Append(lines, line)
    /\ variables' = r.variables
    /\ last' = Called("parse_line", line, <<>>, 0, variables, r.ret, rendered_line(r.ret))
    /\ line_idx' = line_idx + 1
    /\ UNCHANGED <<rust_lines, pc, err, output>>

SessionLine(line) ==
    /\ line_idx < MaxSession
    /\ IsOk(last.ret)
    /\ SessionParsed(line, parse_line(line, line_idx + 1, variables))

SessionNext == \E line \in SessionCorpus : SessionLine(line)

SessionSpec == SessionInit /\ [][SessionNext]_vars

\* The lines parsed before the line of the last call.
Earlier == SubSeq(lines, 1, Len(lines) - 1)

\* The positions of the earlier lines that declare the name.
DeclarationsOf(name) ==
    {i \in 1..Len(Earlier) : \E d \in SessionDecls : d.text = Earlier[i] /\ d.name = name}

LatestDeclaration(name) ==
    CHOOSE i \in DeclarationsOf(name) : \A j \in DeclarationsOf(name) : j <= i

DeclaredTypeAt(i) == (CHOOSE d \in SessionDecls : d.text = Earlier[i]).type

\* The table that maps each declared name to the type of its latest declaration.
LatestTypes ==
    [name \in {n \in {Chars("x"), Chars("y")} : DeclarationsOf(n) # {}} |->
        DeclaredTypeAt(LatestDeclaration(name))]

\* The name was declared earlier with a type other than its latest one.
Redeclared(name) ==
    /\ DeclarationsOf(name) # {}
    /\ \E i \in DeclarationsOf(name) : DeclaredTypeAt(i) # LatestTypes[name]

\* A declaration of a name the table already holds succeeds and leaves the
\* declared type in the table.
RedeclarationSucceeds(d) ==
    (last.input = d.text /\ d.name \in DOMAIN last.before)
        => /\ IsOk(last.ret)
           /\ last.ret.val.kind = "VariableDecl"
           /\ variables = [last.before EXCEPT ![d.name] = d.type]

\* An assignment to a declared name is accepted exactly when its value resolves,
\* with every name at the type of its latest declaration, to the type of the
\* latest declaration of the assigned name.
CheckedAgainstLatest(a) ==
    (last.input = a.text /\ DeclarationsOf(a.name) # {})
        => (IsOk(last.ret) <=>
                /\ IsOk(parse_expression(a.value, LatestTypes, 1, 1))
                /\ get_type(parse_expression(a.value, LatestTypes, 1, 1).val)
                      = LatestTypes[a.name])

\* C14: declaring again a name that is already declared succeeds and overwrites
\* its type in the Symbol Table: every later assignment to the name and every
\* later use of it in an expression is checked against the type of the latest
\* declaration, never an earlier one.
C14_RedeclarationOverwrites ==
    LineCall =>
        /\ last.before = LatestTypes
        /\ \A d \in SessionDecls : RedeclarationSucceeds(d)
        /\ \A a \in SessionAssigns : CheckedAgainstLatest(a)

C14_Witness ==
    /\ LineCall
    /\ lines = <<Chars("x: int"), Chars("x: str"), Chars("x = \"a\"")>>
    /\ Redeclared(Chars("x"))
    /\ IsOk(last.ret)
    /\ last.ret.val.kind = "VariableAssign"

HasType(name, type_name) ==
    Chars(name) \in DOMAIN last.before /\ last.before[Chars(name)] = Chars(type_name)

\* C15: where `/=` and `//=` could both match, compound-assignment detection
\* takes the longer spelling: with x an integer variable, `x //= 2` is the
\* compound node (x, FloorDivide, 2) and never (`x /`, Divide, 2).
C15_LongerSpellingPreferred ==
    (ExpressionCall /\ last.input = Chars("x //= 2") /\ HasType("x", "int"))
        => last.ret = Ok(CompoundAssign(Chars("x"), "FloorDivide", IntLiteral("2"), Chars("int")))

Tier(o) ==
    IF o \in BitwiseSpellings THEN o
    ELSE IF o \in AdditiveSpellings THEN Chars("+")
    ELSE Chars("*")

OperatorOf(o) == (CHOOSE k \in 1..Len(PRECEDENCE) : PRECEDENCE[k].str = o)

\* C16: operators of one precedence tier have one rank, so a chain whose
\* operators all lie in one tier splits at its leftmost operator: `1 - 2 + 3`
\* splits at `-` into `1` and `2 + 3`, `8 / 2 * 2` at `/`, `1 + 2 - 3` at `+`.
C16_LeftmostOfTier ==
    /\ (IntegerChain /\ ~Uses(last.ops, {Chars("//")})
          /\ \A k \in 1..Len(last.ops) : Tier(last.ops[k]) = Tier(last.ops[1]))
       => /\ IsOk(last.ret)
          /\ last.ret.val.tag = "BinaryOp"
          /\ last.ret.val.op = PRECEDENCE[OperatorOf(last.ops[1])].op
          /\ last.ret.val.left.tag # "BinaryOp"
    /\ (ExpressionCall /\ last.input = Chars("1 - 2 + 3"))
       => last.ret = Ok(BinaryOp(IntLiteral("1"), "Subtract",
                                 BinaryOp(IntLiteral("2"), "Add", IntLiteral("3"), Chars("int")),
                                 Chars("int")))
    /\ (ExpressionCall /\ last.input = Chars("8 / 2 * 2"))
       => (IsOk(last.ret) /\ last.ret.val.op = "Divide")

\* C17: a leading `-` on a numeric operand gives a UnaryOp Negate node of the
\* operand's type and on a non-numeric operand fails; a leading `~` on an
\* integer operand gives UnaryOp BitwiseNot and on a non-integer operand fails.
C17_UnaryOperators ==
    ExpressionCall =>
        /\ last.input = Chars("-5")
           => last.ret = Ok(UnaryOp("Negate", IntLiteral("5"), Chars("int")))
        /\ (last.input = Chars("-x") /\ (HasType("x", "int") \/ HasType("x", "float")))
           => last.ret = Ok(UnaryOp("Negate", Variable(Chars("x"), last.before[Chars("x")]),
                                    last.before[Chars("x")]))
        /\ last.input = Chars("-(1 + 2)")
           => last.ret = Ok(UnaryOp("Negate",
                                    BinaryOp(IntLiteral("1"), "Add", IntLiteral("2"), Chars("int")),
                                    Chars("int")))
        /\ (last.input = Chars("-s") /\ HasType("s", "str")) => IsErr(last.ret)
        /\ last.input = Chars("~5")
           => last.ret = Ok(UnaryOp("BitwiseNot", IntLiteral("5"), Chars("int")))
        /\ (last.input = Chars("~x") /\ HasType("x", "int"))
           => last.ret = Ok(UnaryOp("BitwiseNot", Variable(Chars("x"), Chars("int")), Chars("int")))
        /\ (last.input = Chars("~x") /\ HasType("x", "float")) => IsErr(last.ret)
        /\ (last.input = Chars("~s") /\ HasType("s", "str")) => IsErr(last.ret)
        /\ last.input = Chars("~1.5") => IsErr(last.ret)

\* C18: over integer operands `a // b` is a BinaryOp FloorDivide node of their
\* type, rendered with `/`; over float operands `//` and `%` fail as not valid
\* for the type.
C18_FloorDivide ==
    ExpressionCall =>
        /\ last.input = Chars("1 // 2")
           => /\ last.ret = Ok(BinaryOp(IntLiteral("1"), "FloorDivide", IntLiteral("2"), Chars("int")))
              /\ last.rendered = Some(Chars("(1 / 2)"))
        /\ (last.input = Chars("x // 2") /\ HasType("x", "int"))
           => /\ IsOk(last.ret)
              /\ last.ret.val.op = "FloorDivide"
              /\ last.rendered = Some(Chars("(x / 2)"))
        /\ last.input \in {Chars("1.5 // 2.5"), Chars("1.5 % 2.5")}
           => /\ IsErr(last.ret)
              /\ last.ret.val.message[1] = "OperatorNotValid"

\* The operator is one the claim allows for the type.
AllowedFor(op, type_name) ==
    IF op \in {"Add", "Subtract", "Multiply", "Divide"} THEN is_numeric_type(type_name)
    ELSE is_integer_type(type_name)

\* Every BinaryOp node of the tree has children of one type, carries that type
\* and has an operator allowed for it.
RECURSIVE WellTyped(_)
WellTyped(e) ==
    IF e.tag = "BinaryOp"
    THEN /\ get_type(e.left) = get_type(e.right)
         /\ e.expr_type = get_type(e.left)
         /\ AllowedFor(e.op, e.expr_type)
         /\ WellTyped(e.left)
         /\ WellTyped(e.right)
    ELSE IF e.tag = "UnaryOp" THEN WellTyped(e.expr)
    ELSE IF e.tag = "CompoundAssign" THEN WellTyped(e.value)
    ELSE TRUE

\* Texts `a op b` whose operands resolve, with the types the operands have.
TypedPairs ==
    { [text |-> "1 + 1.5", left |-> "int", right |-> "float", op |-> "Add", needs |-> <<>>],
      [text |-> "s + 1", left |-> "str", right |-> "int", op |-> "Add", needs |-> <<"s", "str">>],
      [text |-> "s + s", left |-> "str", right |-> "str", op |-> "Add", needs |-> <<"s", "str">>],
      [text |-> "1.5 % 2.5", left |-> "float", right |-> "float", op |-> "Modulo", needs |-> <<>>],
      [text |-> "x % x", left |-> "float", right |-> "float", op |-> "Modulo",
       needs |-> <<"x", "float">>],
      [text |-> "x | x", left |-> "float", right |-> "float", op |-> "BitwiseOr",
       needs |-> <<"x", "float">>],
      [text |-> "x + x", left |-> "float", right |-> "float", op |-> "Add",
       needs |-> <<"x", "float">>],
      [text |-> "x % x", left |-> "int", right |-> "int", op |-> "Modulo", needs |-> <<"x", "int">>],
      [text |-> "x | x", left |-> "int", right |-> "int", op |-> "BitwiseOr",
       needs |-> <<"x", "int">>] }

PairCall(p) ==
    /\ ExpressionCall
    /\ last.input = Chars(p.text)
    /\ p.needs # <<>> => HasType(p.needs[1], p.needs[2])

PairOutcome(p) ==
    IF p.left # p.right
    THEN /\ IsErr(last.ret)
         /\ last.ret.val.message = <<"TypeMismatchBinary", Chars(p.left), Chars(p.right)>>
    ELSE IF ~AllowedFor(p.op, Chars(p.left))
    THEN /\ IsErr(last.ret)
         /\ last.ret.val.message = <<"OperatorNotValid", Chars(p.op), Chars(p.left)>>
    ELSE /\ IsOk(last.ret)
         /\ last.ret.val.tag = "BinaryOp"
         /\ last.ret.val.op = p.op
         /\ last.ret.val.expr_type = Chars(p.left)

CompoundValueAssigned ==
    /\ LineCall
    /\ IsOk(last.ret)
    /\ last.ret.val.kind = "VariableAssign"
    /\ last.ret.val.value.tag = "CompoundAssign"

\* C20: the line generated for a VariableAssign whose value is a CompoundAssign
\* node is `name op= <rendered value>;` with the target's compound operator: the
\* rendered value of the compound node is part of the line.
C20_CompoundValueEmitted ==
    CompoundValueAssigned =>
        last.rendered
            = Some(with_comment(indent_str(last.ret.val.indent) \o last.ret.val.name \o Chars(" ")
                                    \o compound_rust_operator(last.ret.val.value.op) \o Chars(" ")
                                    \o generate_expression(last.ret.val.value.value) \o Chars(";"),
                                last.ret.val.comment))

\* The parenthesis depth after the first i characters of the text.
DepthAfter(text, i) ==
    Cardinality({k \in 1..i : text[k] = "("}) - Cardinality({k \in 1..i : text[k] = ")"})

\* The spelling stands in the text at position i, at depth zero.
DepthZeroAt(text, i, spelling) ==
    /\ DepthAfter(text, i) = 0
    /\ i + Len(spelling) - 1 <= Len(text)
    /\ SubSeq(text, i, i + Len(spelling) - 1) = spelling

HasDepthZeroOperator(text) ==
    \E i \in 1..Len(text), o \in OpSpellings : DepthZeroAt(text, i, o)

\* A call of parse_expression on a text the binary parser receives whole: one
\* in which no compound assignment is detected.
BinaryCall ==
    /\ ExpressionCall
    /\ parse_compound_assignment(trim(last.input)) = None

Wrapped(text) == Len(text) >= 2 /\ Head(text) = "(" /\ text[Len(text)] = ")"

\* Parenthesized texts with the trees they parse to.
ParenCases ==
    { [text |-> "(1 + 2) * 3",
       tree |-> BinaryOp(BinaryOp(IntLiteral("1"), "Add", IntLiteral("2"), Chars("int")),
                         "Multiply", IntLiteral("3"), Chars("int"))],
      [text |-> "2 * (1 + 3)",
       tree |-> BinaryOp(IntLiteral("2"), "Multiply",
                         BinaryOp(IntLiteral("1"), "Add", IntLiteral("3"), Chars("int")),
                         Chars("int"))],
      [text |-> "(1 + 2) * (3 | 4)",
       tree |-> BinaryOp(BinaryOp(IntLiteral("1"), "Add", IntLiteral("2"), Chars("int")),
                         "Multiply",
                         BinaryOp(IntLiteral("3"), "BitwiseOr", IntLiteral("4"), Chars("int")),
                         Chars("int"))],
      [text |-> "(1 | 2)",
       tree |-> BinaryOp(IntLiteral("1"), "BitwiseOr", IntLiteral("2"), Chars("int"))],
      [text |-> "((1 + 2))",
       tree |-> BinaryOp(IntLiteral("1"), "Add", IntLiteral("2"), Chars("int"))] }

\* C21: only operator occurrences at parenthesis depth zero are split points of
\* a binary expression, and a text with no such occurrence that starts with `(`
\* and ends with `)` loses one outer pair and is parsed again as a binary
\* expression: `(1 + 2) * 3` is Multiply over Add(1, 2) and 3.
C21_SplitAtDepthZero ==
    BinaryCall =>
        /\ (IsOk(last.ret) /\ last.ret.val.tag = "BinaryOp"
              /\ HasDepthZeroOperator(trim(last.input)))
           => \E i \in 1..Len(trim(last.input)) :
                 DepthZeroAt(trim(last.input), i, as_str(last.ret.val.op))
        /\ (Wrapped(trim(last.input)) /\ ~HasDepthZeroOperator(trim(last.input)))
           => last.ret = parse_binary_expression(
                             trim(SubSeq(trim(last.input), 2, Len(trim(last.input)) - 1)),
                             last.before, 1, last.column + 1)
        /\ \A p \in ParenCases : last.input = Chars(p.text) => last.ret = Ok(p.tree)

C21_Witness ==
    /\ BinaryCall
    /\ last.input = Chars("(1 + 2) * 3")
    /\ IsOk(last.ret)
    /\ last.ret.val.op = "Multiply"
    /\ last.ret.val.left.op = "Add"

\* The type names of the catalog.
Catalog == {Chars(TypeMapping[k][1]) : k \in 1..Len(TypeMapping)}

\* The code segment is handled by the declaration rule.
DeclarationLine(code) ==
    code # <<>> /\ ~starts_with(code, Chars("print")) /\ contains(code, Chars(":"))

\* The name a declaration line declares: the text before its first colon.
DeclaredName(code) == trim(SubSeq(code, 1, find(code, Chars(":"))))

\* Every entry of the table before the call but that of the name is in the table
\* after it, unchanged, and no other name has come in.
OnlyEntryOf(name) ==
    /\ DOMAIN last.before \subseteq DOMAIN variables
    /\ DOMAIN variables \subseteq DOMAIN last.before \cup {name}
    /\ \A n \in DOMAIN last.before \ {name} : variables[n] = last.before[n]
    /\ name \in DOMAIN variables => variables[name] \in Catalog

\* C22: blank, comment, print and assignment lines, accepted or not, leave the
\* Symbol Table as it was; a declaration line changes at most the entry of its
\* own name, and only to a type of the catalog; no entry is removed.
C22_SymbolTableFrame ==
    LineCall =>
        IF DeclarationLine(CodeOf(last.input))
        THEN OnlyEntryOf(DeclaredName(CodeOf(last.input)))
        ELSE variables = last.before

C22_Witness ==
    /\ LineCall
    /\ last.input = Chars("s: str = \"hi\"")
    /\ last.before = Table({<<"x", "int">>})
    /\ variables = Table({<<"x", "int">>, <<"s", "str">>})

\* The character at position i of the line follows an escaping backslash: a
\* backslash that is not itself escaped.
RECURSIVE Escaped(_, _)
Escaped(line, i) == i > 1 /\ line[i - 1] = "\\" /\ ~Escaped(line, i - 1)

\* Position i lies inside a quoted literal: an odd number of unescaped quote
\* characters, double or single, stand before it.
InsideQuotes(line, i) ==
    Cardinality({k \in 1..(i - 1) : line[k] \in {"\"", "'"} /\ ~Escaped(line, k)}) % 2 = 1

\* The positions of the `#` characters that start a comment.
Markers(line) ==
    {i \in 1..Len(line) : line[i] = "#" /\ ~Escaped(line, i) /\ ~InsideQuotes(line, i)}

FirstMarker(line) == CHOOSE i \in Markers(line) : \A j \in Markers(line) : i <= j

\* The code segment and the comment segment when the comment segment starts
\* `gap` characters after the first marker.
SplitAtMarker(line, gap) ==
    IF Markers(line) = {} THEN [code |-> line, comment |-> None]
    ELSE [code |-> SubSeq(line, 1, FirstMarker(line) - 1),
          comment |-> Some(SubSeq(line, FirstMarker(line) + gap, Len(line)))]

\* C23 (as amended): the first `#` that is neither inside a quoted literal nor
\* after an escaping backslash starts the comment; the code segment is the text
\* before it and the comment segment is all the text after it, nothing more
\* skipped; without such a `#` the whole line is code and the comment is absent.
C23_SplitAtFirstMarker ==
    LineCall => split_code_and_comment(last.input) = SplitAtMarker(last.input, 1)

\* C23 (as stated): the same with the first character after the `#` left out of
\* the comment segment.
C23_SplitSkipsSeparator ==
    LineCall => split_code_and_comment(last.input) = SplitAtMarker(last.input, 2)

C23_Witness ==
    /\ LineCall
    /\ last.input = Chars("print(\"a#b\") # c")
    /\ split_code_and_comment(last.input)
          = [code |-> Chars("print(\"a#b\") "), comment |-> Some(Chars(" c"))]
    /\ IsOk(last.ret)
    /\ last.ret.val.comment = Some(Chars("c"))

\* The node of a double-quoted literal with the given text between its quotes.
StrLiteral(inner) == Literal(Quoted(escape_string_for_rust(inner)), Chars("str"))

\* C24: a double-quoted string literal is one Literal node of type str whatever
\* stands between its quotes: `s: str = "a+b"` and, with s declared as str,
\* `s = "a-b"` are accepted with the whole quoted text as the value.
C24_QuotedTextIsOneLiteral ==
    \A t \in QuotedInners :
        /\ (LineCall /\ last.input = Chars("s: str = ") \o Quoted(t))
           => /\ IsOk(last.ret)
              /\ last.ret.val.kind = "VariableDecl"
              /\ last.ret.val.value = Some(StrLiteral(t))
        /\ (LineCall /\ last.input = Chars("s = ") \o Quoted(t)
              /\ Chars("s") \in DOMAIN last.before /\ last.before[Chars("s")] = Chars("str"))
           => /\ IsOk(last.ret)
              /\ last.ret.val.kind = "VariableAssign"
              /\ last.ret.val.value = StrLiteral(t)

\* The run is over and every line of the input was parsed.
RunOverAllParsed == pc # "parsing" /\ Len(rust_lines) = Len(lines)

\* Some parsed line is a print statement or a declaration.
SomeExecutable ==
    \E k \in 1..Len(rust_lines) : rust_lines[k].kind \in {"Print", "VariableDecl"}

\* C25: a run whose lines all parse and hold no print statement and no
\* declaration writes nothing and returns an error at line 1, column 1; a run
\* whose lines all parse and hold at least one print statement or declaration
\* writes its output.
C25_OutputIffExecutable ==
    RunOverAllParsed =>
        IF SomeExecutable
        THEN pc = "done" /\ output # None /\ err = None
        ELSE /\ pc = "failed"
             /\ output = None
             /\ err # None
             /\ err[1].line = 1
             /\ err[1].column = 1

C25_Witness ==
    /\ lines = <<Chars("# c"), Chars("")>>
    /\ RunOverAllParsed
    /\ ~SomeExecutable
    /\ pc = "failed"
    /\ output = None
    /\ err = Some(TranspilerError(<<"NoExecutableCode">>, 1, 1))

====
